---- MODULE Spec2Model ----
(***************************************************************************)
(* A model of 02-notebook.ipynb: a Jupyter notebook of twelve cells.       *)
(*                                                                         *)
(*   Spec       the kernel running the notebook's cells: the in-order run  *)
(*              from a fresh kernel, then re-executions of single cells.   *)
(*              Values are kept by kind, shape and (for the integers)      *)
(*              value, at the sizes the notebook writes (1000 x 100, 800). *)
(*   SpecData   the interpolation, flattening, tiling and 2D histogram of   *)
(*              the data cells, element by element, on small arrays.       *)
(*   SpecChart  the interval selection of the chart cell acting on the     *)
(*              points and the bars.                                       *)
(***************************************************************************)
EXTENDS Integers, Sequences, FiniteSets

VARIABLES
    \* ---- Spec: the kernel and the notebook run
    mode,        \* "run": the in-order run; "rerun": single cells re-executed
    pc,          \* index (0-based) of the next cell of the in-order run
    outcome,     \* "ok", or the fault that ended execution
    kernel,      \* the kernel's namespace: name -> value (kind, shape, val)
    Yrows,       \* what each row of the array Y holds: "walk" or "signal"
    ywrites,     \* how often each row of the buffer y_fine has been written
                 \* (both kept as runs of equal rows: <<[n, v], ...>>)
    iters,       \* iterations done by the last execution of the for loop
    artifacts,   \* the rendered outputs, in the order they were produced
    labels,      \* the labels registered so far: set of <<label, cell>>
    refs,        \* the cross-reference targets met so far in markdown cells
    first,       \* the namespace at the end of the complete in-order run (<<>> before)
    reruns,      \* number of single-cell re-executions so far
    trail,       \* the cells re-executed, in order
    \* ---- SpecData: the data cells, element by element
    dpc,         \* position in the data cells' code
    dY,          \* the input series Y[i][j]
    dyf,         \* the 2D buffer y_fine[i][g]
    dwr,         \* how often each row of the buffer has been written
    di,          \* the loop variable i (next row)
    dxflat,      \* x_fine after tiling and flattening
    dyflat,      \* y_fine after flattening
    dh,          \* the histogram h: bin <<bx, by>> -> count (a bin absent holds 0)
    dedges,      \* <<number of xedges, number of yedges>>
    \* ---- SpecChart: the chart's selection
    source,      \* the cars: sequence of [hp, mpg, origin]; a value may be missing
    brush        \* the interval selection: <<>> (none) or <<lo, hi>>

kvars == <<mode, pc, outcome, kernel, Yrows, ywrites, iters, artifacts,
           labels, refs, first, reruns, trail>>
dvars == <<dpc, dY, dyf, dwr, di, dxflat, dyflat, dh, dedges>>
cvars == <<source, brush>>
vars == <<kvars, dvars, cvars>>

(***************************************************************************)
(* Bounds of the model                                                     *)
(***************************************************************************)
MaxReruns == 2
NSeries == 2      \* SpecData: number of series (rows of Y)
NPoints == 3      \* SpecData: samples per series
NFine == 4        \* SpecData: points of the interpolation grid
MaxVal == 1       \* SpecData: the samples are -MaxVal or MaxVal
NCars == 2        \* SpecChart: number of cars in the dataset
MaxHP == 2        \* SpecChart: the Horsepower axis is 0..MaxHP

(***************************************************************************)
(* The literals of the notebook                                            *)
(***************************************************************************)
num_series_lit == 1000
num_points_lit == 100
SNR_percent == 10         \* SNR = 0.10, kept in hundredths
num_fine_lit == 800
bins_x == 400
bins_y == 100

(***************************************************************************)
(* Values of the kernel                                                    *)
(***************************************************************************)
Unbound == [kind |-> "unbound", shape |-> <<>>, val |-> 0]
Obj(kind) == [kind |-> kind, shape |-> <<>>, val |-> 0]
IntV(n) == [kind |-> "int", shape |-> <<>>, val |-> n]
Arr(shape) == [kind |-> "ndarray", shape |-> shape, val |-> 0]

Names ==
    {"alt", "data", "source", "brush", "points", "bars",
     "copy", "np", "numpy", "plt", "LogNorm",
     "num_series", "num_points", "SNR", "x", "Y", "num_signal", "phi",
     "num_fine", "x_fine", "y_fine", "i",
     "fig", "axes", "cmap", "h", "xedges", "yedges", "pcm",
     "leafmap", "m", "url", "url2"}

(***************************************************************************)
(* The notebook: its cells, their labels and references, and the           *)
(* statements of each code cell.  A statement names what it reads, and     *)
(* whether it calls into a library (so that it can fault).                 *)
(***************************************************************************)
NumCells == 12
CellIds == 0 .. (NumCells - 1)

CellType(c) == IF c \in {0, 2, 5, 7} THEN "markdown" ELSE "code"

CodeCells == {c \in CellIds : CellType(c) = "code"}

\* (mutant) the second labelled cell carries the first one's label
LabelOf_duplicate(c) == IF c \in {3, 8} THEN {"horsepower"} ELSE {}

\* "# | label: ..." comments of the code cells
LabelOf(c) ==
    CASE c = 3 -> {"horsepower"}
      [] c = 8 -> {"plasma"}
      [] OTHER -> {}

\* "(#target)" links of the markdown cells
RefsOf(c) == IF c = 5 THEN {"horsepower"} ELSE {}

S(id, reads, lib) == [id |-> id, reads |-> reads, lib |-> lib]

Cell1 ==
    << S("import_alt", {}, TRUE),
       S("import_data", {}, TRUE),
       S("source", {"data"}, TRUE),
       S("brush", {"alt"}, TRUE),
       S("points", {"alt", "source", "brush"}, TRUE),
       S("bars", {"alt", "source", "brush"}, TRUE) >>

Cell3 == << S("show_chart", {"points", "bars"}, TRUE) >>

\* (mutant) the imports without "import numpy as np"
Cell4_without_np ==
    << S("import_copy", {}, TRUE),
       S("import_matlib", {}, TRUE),
       S("import_plt", {}, TRUE),
       S("import_LogNorm", {}, TRUE) >>

Cell4 ==
    << S("import_copy", {}, TRUE),
       S("import_np", {}, TRUE),
       S("import_matlib", {}, TRUE),
       S("import_plt", {}, TRUE),
       S("import_LogNorm", {}, TRUE) >>

Cell6 ==
    << S("num_series", {}, FALSE),
       S("num_points", {}, FALSE),
       S("SNR", {}, FALSE),
       S("x", {"np", "num_points"}, TRUE),
       S("Y", {"np", "num_series", "num_points"}, TRUE),
       S("num_signal", {"SNR", "num_series"}, FALSE),
       S("phi", {"np", "num_signal"}, TRUE),
       S("Y_signal", {"Y", "num_signal", "np", "num_points", "x", "phi"}, TRUE),
       S("num_fine", {}, FALSE),
       S("x_fine", {"np", "x", "num_fine"}, TRUE),
       S("y_fine", {"np", "num_series", "num_fine"}, TRUE),
       S("for_interp", {"num_series", "y_fine", "np", "x_fine", "x", "Y"}, TRUE),
       S("y_flatten", {"y_fine"}, TRUE),
       S("x_repmat", {"np", "x_fine", "num_series"}, TRUE) >>

Cell8 ==
    << S("subplots", {"plt"}, TRUE),
       S("cmap", {"copy", "plt"}, TRUE),
       S("set_bad", {"cmap"}, TRUE),
       S("histogram2d", {"np", "x_fine", "y_fine"}, TRUE),
       S("pcolormesh", {"axes", "xedges", "yedges", "h", "cmap", "LogNorm"}, TRUE),
       S("colorbar", {"fig", "pcm", "axes"}, TRUE),
       S("set_title", {"axes"}, TRUE) >>

Cell9 == << S("import_leafmap", {}, TRUE) >>

Cell10 ==
    << S("m", {"leafmap"}, TRUE),
       S("url", {}, FALSE),
       S("url2", {}, FALSE),
       S("split_map", {"m", "url", "url2"}, TRUE),
       S("show_m", {"m"}, FALSE) >>

Cell11 == << >>

Stmts(c) ==
    CASE c = 1 -> Cell1
      [] c = 3 -> Cell3
      [] c = 4 -> Cell4
      [] c = 6 -> Cell6
      [] c = 8 -> Cell8
      [] c = 9 -> Cell9
      [] c = 10 -> Cell10
      [] OTHER -> Cell11

(***************************************************************************)
(* The state a cell's statements act on: the namespace k, the two arrays'  *)
(* row bookkeeping, the open figure, the values displayed, the error.      *)
(***************************************************************************)
Bind(st, name, value) == [st EXCEPT !.k[name] = value]

Raise(st, error) == [st EXCEPT !.err = error]

\* Python's round(): to the nearest integer, ties to the even one (num/den >= 0)
RoundHalfEven(num, den) ==
    LET q == num \div den
        r == num % den
    IN  IF 2 * r < den THEN q
        ELSE IF 2 * r > den THEN q + 1
        ELSE IF q % 2 = 0 THEN q ELSE q + 1

\* The first row of the slice Y[start:] of an array of n rows
SliceStart(start, n) ==
    IF start >= 0 THEN (IF start > n THEN n ELSE start)
    ELSE IF start + n < 0 THEN 0 ELSE start + n

\* numpy broadcasting of two 2-D shapes; <<>> when they do not broadcast
BroadcastDim(a, b) == IF a = b THEN a ELSE IF a = 1 THEN b ELSE IF b = 1 THEN a ELSE 0 - 1

Broadcast(a, b) ==
    IF BroadcastDim(a[1], b[1]) < 0 \/ BroadcastDim(a[2], b[2]) < 0 THEN <<>>
    ELSE <<BroadcastDim(a[1], b[1]), BroadcastDim(a[2], b[2])>>

\* Whether a value of 2-D shape rhs can be assigned to a target of 2-D shape t
AssignableTo(rhs, t) ==
    /\ rhs # <<>>
    /\ rhs[1] \in {1, t[1]}
    /\ rhs[2] \in {1, t[2]}

RECURSIVE Product(_)
Product(shape) == IF shape = <<>> THEN 1 ELSE Head(shape) * Product(Tail(shape))

\* (mutant) Y[:num_signal] = ...: the first rows instead of the last
SignalRows_first(st) ==
    [st EXCEPT !.Yrows = [r \in DOMAIN st.Yrows |->
                             IF r < st.k["num_signal"].val THEN "signal" ELSE st.Yrows[r]]]

\* Y[-num_signal:] = sqrt(arange(num_points))[None, :] * (sin(x[None, :] - phi) + 0.05 * randn(...))
SignalRows(st) ==
    LET n     == st.k["Y"].shape[1]
        nsig  == st.k["num_signal"].val
        npts  == st.k["num_points"].val
        start == SliceStart(0 - nsig, n)
        rhs   == Broadcast(<<1, npts>>,
                           Broadcast(Broadcast(<<1, st.k["x"].shape[1]>>, st.k["phi"].shape),
                                     <<nsig, npts>>))
    IN  IF rhs = <<>> \/ ~AssignableTo(rhs, <<n - start, st.k["Y"].shape[2]>>)
        THEN Raise(st, "ValueError")
        ELSE [st EXCEPT !.Yrows = [r \in DOMAIN st.Yrows |->
                                      IF r >= start THEN "signal" ELSE st.Yrows[r]]]

\* (mutant) range(num_series - 1): the loop stops one row early
LoopRange_short(st) == st.k["num_series"].val - 1

\* range(num_series)
LoopRange(st) == st.k["num_series"].val

\* One iteration: y_fine[i, :] = np.interp(x_fine, x, Y[i, :])
InterpRow(st, i) ==
    IF i >= st.k["y_fine"].shape[1] \/ i >= st.k["Y"].shape[1]
    THEN Raise(st, "IndexError")
    ELSE IF st.k["x"].shape[1] # st.k["Y"].shape[2]
            \/ st.k["x_fine"].shape[1] # st.k["y_fine"].shape[2]
    THEN Raise(st, "ValueError")
    ELSE [st EXCEPT !.k["i"] = IntV(i),
                    !.ywrites[i] = @ + 1,
                    !.iters = @ + 1]

\* for i in range(num_series): ...; the interpolation of iteration `stop` faults.
\* The iterations lo .. hi-1 run in order, each on the state the one before
\* left (the range is halved only to keep the evaluation shallow).
RECURSIVE ForInterp(_, _, _, _)
ForInterp(st, lo, hi, stop) ==
    IF st.err # "" \/ lo >= hi THEN st
    ELSE IF hi = lo + 1
    THEN (IF lo = stop THEN Raise(Bind(st, "i", IntV(lo)), "fault") ELSE InterpRow(st, lo))
    ELSE LET mid == (lo + hi) \div 2
         IN  ForInterp(ForInterp(st, lo, mid, stop), mid, hi, stop)

\* (mutant) x_fine is built only when it is not bound yet, so that a second
\* execution tiles the array tiled before
XFine_once(st) ==
    IF st.k["x_fine"] = Unbound THEN Bind(st, "x_fine", Arr(<<st.k["num_fine"].val>>)) ELSE st

\* x_fine = np.linspace(x.min(), x.max(), num_fine)
XFine(st) == Bind(st, "x_fine", Arr(<<st.k["num_fine"].val>>))

\* y_fine = y_fine.flatten()
Flatten(shape) == <<Product(shape)>>

\* np.matlib.repmat(a, m, n) of a 1-D array a
Repmat(shape, m, n) == <<m, n * shape[1]>>

\* h, xedges, yedges = np.histogram2d(x_fine, y_fine, bins=[400, 100])
Histogram2d(st) ==
    LET xs == st.k["x_fine"].shape
        ys == st.k["y_fine"].shape
    IN  IF Len(xs) # 1 \/ Len(ys) # 1 \/ xs # ys THEN Raise(st, "ValueError")
        ELSE [st EXCEPT !.k["h"] = Arr(<<bins_x, bins_y>>),
                        !.k["xedges"] = Arr(<<bins_x + 1>>),
                        !.k["yedges"] = Arr(<<bins_y + 1>>)]

\* h.T
Transpose(shape) == <<shape[2], shape[1]>>

\* axes.pcolormesh(xedges, yedges, h.T, ...): the grid must fit the values
Pcolormesh(st) ==
    LET C  == Transpose(st.k["h"].shape)
        nx == st.k["xedges"].shape[1]
        ny == st.k["yedges"].shape[1]
    IN  IF (nx = C[2] + 1 /\ ny = C[1] + 1) \/ (nx = C[2] /\ ny = C[1])
        THEN Bind(st, "pcm", Obj("quadmesh"))
        ELSE Raise(st, "TypeError")

\* (mutant) nothing is displayed
Display_none(st, kind) == st

\* A cell whose last statement is an expression displays its value
Display(st, kind) == [st EXCEPT !.out = Append(@, kind)]

Effect(id, st, stop) ==
    CASE id = "import_alt" -> Bind(st, "alt", Obj("module"))
      [] id = "import_data" -> Bind(st, "data", Obj("module"))
      [] id = "source" -> Bind(st, "source", Obj("dataframe"))
      [] id = "brush" -> Bind(st, "brush", Obj("selection"))
      [] id = "points" -> Bind(st, "points", Obj("chart"))
      [] id = "bars" -> Bind(st, "bars", Obj("chart"))
      [] id = "show_chart" -> Display(st, "chart")
      [] id = "import_copy" -> Bind(st, "copy", Obj("function"))
      [] id = "import_np" -> Bind(st, "np", Obj("module"))
      [] id = "import_matlib" -> Bind(st, "numpy", Obj("module"))
      [] id = "import_plt" -> Bind(st, "plt", Obj("module"))
      [] id = "import_LogNorm" -> Bind(st, "LogNorm", Obj("class"))
      [] id = "num_series" -> Bind(st, "num_series", IntV(num_series_lit))
      [] id = "num_points" -> Bind(st, "num_points", IntV(num_points_lit))
      [] id = "SNR" -> Bind(st, "SNR", [kind |-> "float", shape |-> <<>>, val |-> SNR_percent])
      [] id = "x" -> Bind(st, "x", Arr(<<st.k["num_points"].val>>))
      [] id = "Y" ->
            [Bind(st, "Y", Arr(<<st.k["num_series"].val, st.k["num_points"].val>>))
                EXCEPT !.Yrows = [r \in 0 .. (st.k["num_series"].val - 1) |-> "walk"]]
      [] id = "num_signal" ->
            Bind(st, "num_signal",
                 IntV(RoundHalfEven(st.k["SNR"].val * st.k["num_series"].val, 100)))
      [] id = "phi" -> Bind(st, "phi", Arr(<<st.k["num_signal"].val, 1>>))
      [] id = "Y_signal" -> SignalRows(st)
      [] id = "num_fine" -> Bind(st, "num_fine", IntV(num_fine_lit))
      [] id = "x_fine" -> XFine(st)
      [] id = "y_fine" ->
            [Bind(st, "y_fine", Arr(<<st.k["num_series"].val, st.k["num_fine"].val>>))
                EXCEPT !.ywrites = [r \in 0 .. (st.k["num_series"].val - 1) |-> 0],
                       !.iters = 0]
      [] id = "for_interp" -> ForInterp([st EXCEPT !.iters = 0], 0, LoopRange(st), stop)
      [] id = "y_flatten" -> Bind(st, "y_fine", Arr(Flatten(st.k["y_fine"].shape)))
      [] id = "x_repmat" ->
            Bind(st, "x_fine",
                 Arr(Flatten(Repmat(st.k["x_fine"].shape, st.k["num_series"].val, 1))))
      [] id = "subplots" ->
            [Bind(Bind(st, "fig", Obj("figure")), "axes", Obj("axes")) EXCEPT !.fig = TRUE]
      [] id = "cmap" -> Bind(st, "cmap", Obj("colormap"))
      [] id = "histogram2d" -> Histogram2d(st)
      [] id = "pcolormesh" -> Pcolormesh(st)
      [] id = "import_leafmap" -> Bind(st, "leafmap", Obj("module"))
      [] id = "m" -> Bind(st, "m", Obj("map"))
      [] id = "url" -> Bind(st, "url", Obj("str"))
      [] id = "url2" -> Bind(st, "url2", Obj("str"))
      [] id = "show_m" -> Display(st, st.k["m"].kind)
      [] OTHER -> st      \* set_bad, colorbar, set_title(...); and split_map bind nothing

(***************************************************************************)
(* Running a cell                                                          *)
(***************************************************************************)
NoFault == <<0, 0>>

\* The iterations of the loop at which a fault of np.interp is tried: the
\* first, a middle one and the last
FaultIterations == {0, num_series_lit \div 2, num_series_lit - 1}

\* Where the environment can make a cell fault: <<statement, loop iteration>>
FaultPoints(c) ==
    {<<s, 0>> : s \in {t \in DOMAIN Stmts(c) :
                          Stmts(c)[t].lib /\ Stmts(c)[t].id # "for_interp"}}
    \cup {<<s, j>> : s \in {t \in DOMAIN Stmts(c) : Stmts(c)[t].id = "for_interp"},
                     j \in FaultIterations}

\* (mutant) a fault is noted and the statements after it still run
RECURSIVE RunStmts_continue(_, _, _, _)
RunStmts_continue(stmts, s, st, fp) ==
    IF s > Len(stmts) THEN st
    ELSE IF \E n \in stmts[s].reads : st.k[n] = Unbound THEN Raise(st, "NameError")
    ELSE IF fp[1] = s
    THEN RunStmts_continue(stmts, s + 1, Raise(st, "fault"), fp)
    ELSE RunStmts_continue(stmts, s + 1, Effect(stmts[s].id, st, 0 - 1), fp)

\* The statements of a cell, in order, up to the first error; a statement that
\* reads an unbound name raises NameError
RECURSIVE RunStmts(_, _, _, _)
RunStmts(stmts, s, st, fp) ==
    IF st.err # "" \/ s > Len(stmts) THEN st
    ELSE IF \E n \in stmts[s].reads : st.k[n] = Unbound THEN Raise(st, "NameError")
    ELSE IF fp[1] = s /\ stmts[s].id # "for_interp" THEN Raise(st, "fault")
    ELSE RunStmts(stmts, s + 1,
                  Effect(stmts[s].id, st, IF fp[1] = s THEN fp[2] ELSE 0 - 1), fp)

\* After a cell has run, with or without an error, the figures it left open
\* are rendered and closed
FlushFigures(st) == IF st.fig THEN <<"figure">> ELSE <<>>

Outputs(c, st) ==
    LET kinds == st.out \o FlushFigures(st)
    IN  [n \in DOMAIN kinds |-> [cell |-> c, kind |-> kinds[n]]]

SetMin(T) == CHOOSE a \in T : \A b \in T : a <= b

SetMax(T) == CHOOSE a \in T : \A b \in T : a >= b

\* The runs of equal values of rows r .. n-1 of f; B holds the rows that differ
\* from the row before them
RECURSIVE RunsFrom(_, _, _, _)
RunsFrom(f, r, B, n) ==
    IF r >= n THEN <<>>
    ELSE LET later == {q \in B : q > r}
             e == IF later = {} THEN n ELSE SetMin(later)
         IN  <<[n |-> e - r, v |-> f[r]]>> \o RunsFrom(f, e, B, n)

\* The rows of an array (row 0..n-1 -> value) as runs of equal values
RunsOf(f) ==
    LET n == Cardinality(DOMAIN f)
    IN  RunsFrom(f, 0, {q \in 1 .. (n - 1) : f[q] # f[q - 1]}, n)

RECURSIVE RunLength(_)
RunLength(runs) == IF runs = <<>> THEN 0 ELSE runs[1].n + RunLength(Tail(runs))

RECURSIVE RunValue(_, _)
RunValue(runs, r) ==
    IF r < runs[1].n THEN runs[1].v ELSE RunValue(Tail(runs), r - runs[1].n)

\* The rows again, from their runs: row r (0-based) -> value
Expand(runs) == [r \in 0 .. (RunLength(runs) - 1) |-> RunValue(runs, r)]

ExecCell(c, fp) ==
    RunStmts(Stmts(c), 1,
             [k |-> kernel, Yrows |-> Expand(Yrows), ywrites |-> Expand(ywrites),
              iters |-> iters, fig |-> FALSE, out |-> <<>>, err |-> ""],
             fp)

Commit(c, st) ==
    /\ kernel' = st.k
    /\ Yrows' = RunsOf(st.Yrows)
    /\ ywrites' = RunsOf(st.ywrites)
    /\ iters' = st.iters
    /\ artifacts' = artifacts \o Outputs(c, st)
    /\ outcome' = IF st.err = "" THEN "ok" ELSE st.err

IdleD ==
    /\ dpc = "idle" /\ dY = <<>> /\ dyf = <<>> /\ dwr = <<>> /\ di = 0
    /\ dxflat = <<>> /\ dyflat = <<>> /\ dh = <<>> /\ dedges = <<>>

IdleC == source = <<>> /\ brush = <<>>

Init ==
    /\ mode = "run"
    /\ pc = 0
    /\ outcome = "ok"
    /\ kernel = [n \in Names |-> Unbound]
    /\ Yrows = <<>>
    /\ ywrites = <<>>
    /\ iters = 0
    /\ artifacts = <<>>
    /\ labels = {}
    /\ refs = {}
    /\ first = <<>>
    /\ reruns = 0
    /\ trail = <<>>
    /\ IdleD
    /\ IdleC

\* The in-order run passes a markdown cell: nothing executes
ReadMarkdown ==
    /\ mode = "run" /\ outcome = "ok"
    /\ pc < NumCells /\ CellType(pc) = "markdown"
    /\ refs' = refs \cup RefsOf(pc)
    /\ pc' = pc + 1
    /\ mode' = IF pc + 1 = NumCells THEN "rerun" ELSE "run"
    /\ first' = IF pc + 1 = NumCells THEN kernel ELSE first
    /\ UNCHANGED <<outcome, kernel, Yrows, ywrites, iters, artifacts, labels, reruns, trail>>
    /\ UNCHANGED <<dvars, cvars>>

\* The in-order run executes the next code cell; a fault ends the run
RunCell ==
    /\ mode = "run" /\ outcome = "ok"
    /\ pc < NumCells /\ CellType(pc) = "code"
    /\ \E fp \in FaultPoints(pc) \cup {NoFault} :
          LET st == ExecCell(pc, fp)
              done == st.err = "" /\ pc + 1 = NumCells
          IN  /\ Commit(pc, st)
              /\ pc' = IF st.err = "" THEN pc + 1 ELSE pc
              /\ mode' = IF done THEN "rerun" ELSE "run"
              /\ first' = IF done THEN st.k ELSE first
    /\ labels' = labels \cup {<<l, pc>> : l \in LabelOf(pc)}
    /\ UNCHANGED <<refs, reruns, trail>>
    /\ UNCHANGED <<dvars, cvars>>

\* After the complete run, any single code cell is executed again
RerunCell ==
    /\ mode = "rerun" /\ outcome = "ok"
    /\ reruns < MaxReruns
    /\ \E c \in CodeCells :
          \E fp \in FaultPoints(c) \cup {NoFault} :
              /\ Commit(c, ExecCell(c, fp))
              /\ trail' = Append(trail, c)
    /\ reruns' = reruns + 1
    /\ UNCHANGED <<mode, pc, labels, refs, first>>
    /\ UNCHANGED <<dvars, cvars>>

Next == ReadMarkdown \/ RunCell \/ RerunCell

Spec == Init /\ [][Next]_vars

(***************************************************************************)
(* SpecData: lines 122-128 of the data cell and the histogram2d call, on   *)
(* arrays of NSeries x NPoints samples interpolated to NFine points.       *)
(* Arrays are functions on 0..n-1.  Abscissae are integers in units of     *)
(* (x.max() - x.min()) / ((NPoints-1) * (NFine-1)), ordinates of the       *)
(* interpolated series in units of 1 / (NFine-1), so that linear           *)
(* interpolation and the bin edges are exact.                              *)
(***************************************************************************)
Rows == 0 .. (NSeries - 1)
Vals == {0 - MaxVal, MaxVal}

\* x[j] of x = np.linspace(0, 4 * np.pi, num_points)
Xp(j) == j * (NFine - 1)

\* x_fine[g] of x_fine = np.linspace(x.min(), x.max(), num_fine)
Grid(g) == g * (NPoints - 1)

\* np.interp(xq, x, fp) at one abscissa: linear between the two samples around
\* xq, the last sample at the right end
Interp(xq, fp) ==
    LET j == CHOOSE j \in 0 .. (NPoints - 1) :
                 /\ Xp(j) <= xq
                 /\ (j = NPoints - 1 \/ xq < Xp(j + 1))
    IN  IF j = NPoints - 1 THEN fp[j] * (NFine - 1)
        ELSE fp[j] * (NFine - 1) + (fp[j + 1] - fp[j]) * (xq - Xp(j))

\* An element of a float array: unset as np.empty leaves it, or set to v
Unset == [set |-> FALSE, v |-> 0]
Val(v) == [set |-> TRUE, v |-> v]

\* (mutant) flatten(order="F"): column by column
FlattenRows_columnMajor(a, nrows, ncols) ==
    [k \in 0 .. (nrows * ncols - 1) |-> a[k % nrows][k \div nrows]]

\* a.flatten() of a 2-D array: row by row
FlattenRows(a, nrows, ncols) ==
    [k \in 0 .. (nrows * ncols - 1) |-> a[k \div ncols][k % ncols]]

\* np.matlib.repmat(a, m, n) of a 1-D array a of length len: m x (n * len)
RepmatRows(a, len, m, n) ==
    [r \in 0 .. (m - 1) |-> [c \in 0 .. (n * len - 1) |-> a[c % len]]]

\* The outer edges of one dimension, doubled: the data's minimum and maximum,
\* widened by 0.5 on each side when they are equal
OuterEdges(samples) ==
    LET lo == SetMin({samples[k] : k \in DOMAIN samples})
        hi == SetMax({samples[k] : k \in DOMAIN samples})
    IN  IF lo = hi THEN <<2 * lo - 1, 2 * hi + 1>> ELSE <<2 * lo, 2 * hi>>

\* np.searchsorted(edges, v, side="right") for the nb + 1 equally spaced edges
\* between the outer edges e (doubled): the number of edges <= v
EdgesUpTo(v, e, nb) ==
    LET q == ((2 * v - e[1]) * nb) \div (e[2] - e[1])
    IN  IF q < 0 THEN 0 ELSE IF q > nb THEN nb + 1 ELSE q + 1

\* (mutant) the samples on the last edge are not moved into the last bin
BinOf_open(v, e, nb) == EdgesUpTo(v, e, nb)

\* The bin of sample v: the number of edges <= v, less one for a sample on the
\* last edge.  Bins 1..nb are the histogram's, 0 and nb+1 hold the outliers.
BinOf(v, e, nb) ==
    IF 2 * v = e[2] THEN EdgesUpTo(v, e, nb) - 1 ELSE EdgesUpTo(v, e, nb)

\* np.histogram2d(xs, ys, bins=[nbx, nby]): the count of every occupied bin
\* (0-based), outliers dropped
Hist2d(xs, ys, nbx, nby) ==
    LET ex == OuterEdges(xs)
        ey == OuterEdges(ys)
        bin == [k \in DOMAIN xs |->
                   <<BinOf(xs[k], ex, nbx) - 1, BinOf(ys[k], ey, nby) - 1>>]
        inner == {k \in DOMAIN xs : /\ bin[k][1] \in 0 .. (nbx - 1)
                                    /\ bin[k][2] \in 0 .. (nby - 1)}
    IN  [b \in {bin[k] : k \in inner} |-> Cardinality({k \in inner : bin[k] = b})]

IdleK ==
    /\ mode = "idle" /\ pc = 0 /\ outcome = "ok"
    /\ kernel = <<>> /\ Yrows = <<>> /\ ywrites = <<>> /\ iters = 0
    /\ artifacts = <<>> /\ labels = {} /\ refs = {} /\ first = <<>>
    /\ reruns = 0 /\ trail = <<>>

\* Y is any array of NSeries x NPoints samples
InitData ==
    /\ dpc = "alloc"
    /\ dY \in [Rows -> [0 .. (NPoints - 1) -> Vals]]
    /\ dyf = <<>> /\ dwr = <<>> /\ di = 0
    /\ dxflat = <<>> /\ dyflat = <<>> /\ dh = <<>> /\ dedges = <<>>
    /\ IdleK
    /\ IdleC

\* y_fine = np.empty((num_series, num_fine), dtype=float)
DAlloc ==
    /\ dpc = "alloc"
    /\ dyf' = [i \in Rows |-> [g \in 0 .. (NFine - 1) |-> Unset]]
    /\ dwr' = [i \in Rows |-> 0]
    /\ di' = 0
    /\ dpc' = "loop"
    /\ UNCHANGED <<dY, dxflat, dyflat, dh, dedges>>
    /\ UNCHANGED <<kvars, cvars>>

\* one iteration: y_fine[i, :] = np.interp(x_fine, x, Y[i, :])
DInterp ==
    /\ dpc = "loop" /\ di < NSeries
    /\ dyf' = [dyf EXCEPT ![di] = [g \in 0 .. (NFine - 1) |-> Val(Interp(Grid(g), dY[di]))]]
    /\ dwr' = [dwr EXCEPT ![di] = @ + 1]
    /\ di' = di + 1
    /\ UNCHANGED <<dpc, dY, dxflat, dyflat, dh, dedges>>
    /\ UNCHANGED <<kvars, cvars>>

\* range(num_series) is exhausted; y_fine = y_fine.flatten()
DFlatten ==
    /\ dpc = "loop" /\ di >= NSeries
    /\ dyflat' = FlattenRows(dyf, NSeries, NFine)
    /\ dpc' = "tile"
    /\ UNCHANGED <<dY, dyf, dwr, di, dxflat, dh, dedges>>
    /\ UNCHANGED <<kvars, cvars>>

\* x_fine = np.matlib.repmat(x_fine, num_series, 1).flatten()
DTile ==
    /\ dpc = "tile"
    /\ dxflat' = FlattenRows(RepmatRows([g \in 0 .. (NFine - 1) |-> Val(Grid(g))],
                                        NFine, NSeries, 1),
                             NSeries, NFine)
    /\ dpc' = "hist"
    /\ UNCHANGED <<dY, dyf, dwr, di, dyflat, dh, dedges>>
    /\ UNCHANGED <<kvars, cvars>>

\* h, xedges, yedges = np.histogram2d(x_fine, y_fine, bins=[400, 100])
DHist ==
    /\ dpc = "hist"
    /\ dh' = Hist2d([k \in DOMAIN dxflat |-> dxflat[k].v],
                    [k \in DOMAIN dyflat |-> dyflat[k].v], bins_x, bins_y)
    /\ dedges' = <<bins_x + 1, bins_y + 1>>
    /\ dpc' = "done"
    /\ UNCHANGED <<dY, dyf, dwr, di, dxflat, dyflat>>
    /\ UNCHANGED <<kvars, cvars>>

NextData == DAlloc \/ DInterp \/ DFlatten \/ DTile \/ DHist

SpecData == InitData /\ [][NextData]_vars

(***************************************************************************)
(* SpecChart: the chart "points & bars" of cell 1 under its interval       *)
(* selection.  The dataset is data.cars() as it comes: Horsepower and      *)
(* Miles_per_Gallon of a car may be missing (null).                        *)
(***************************************************************************)
\* The missing value: a number no Horsepower or Miles_per_Gallon takes
Null == MaxHP + 1
Origins == {"USA", "Europe"}
CarIds == 1 .. NCars
Cars == [hp : {Null} \cup (1 .. MaxHP), mpg : {Null, 1}, origin : Origins]

\* A null compared with the ends of an interval counts as the number 0
AsNumber(v) == IF v = Null THEN 0 ELSE v

\* (mutant) selection_interval(encodings=["y"]): the brush tests the y field
Selected_byY(car) ==
    \/ brush = <<>>
    \/ (brush[1] <= AsNumber(car.mpg) /\ AsNumber(car.mpg) <= brush[2])

\* brush = alt.selection_interval(encodings=["x"]), x = Horsepower: with no
\* interval drawn every car is selected, else those whose Horsepower is in it
Selected(car) ==
    \/ brush = <<>>
    \/ (brush[1] <= AsNumber(car.hp) /\ AsNumber(car.hp) <= brush[2])

\* mark_point with x = Horsepower:Q and y = Miles_per_Gallon:Q draws no point
\* for a car that has no position on one of the two axes
Drawn(car) == car.hp # Null /\ car.mpg # Null

\* color = alt.condition(brush, "Origin:N", alt.value("lightgray"))
PointColor(car) == IF Selected(car) THEN car.origin ELSE "lightgray"

\* bars: x = count(Origin) per y = Origin, after transform_filter(brush)
BarCount(o) == Cardinality({i \in CarIds : source[i].origin = o /\ Selected(source[i])})

InitChart ==
    /\ source \in [CarIds -> Cars]
    /\ brush = <<>>
    /\ IdleK
    /\ IdleD

\* dragging in the points chart draws the interval lo..hi on the x axis
Drag ==
    /\ \E lo \in 0 .. MaxHP : \E hi \in 0 .. MaxHP :
          /\ lo < hi
          /\ brush' = <<lo, hi>>
    /\ UNCHANGED <<source, kvars, dvars>>

\* clicking outside the interval removes it
Clear ==
    /\ brush # <<>>
    /\ brush' = <<>>
    /\ UNCHANGED <<source, kvars, dvars>>

NextChart == Drag \/ Clear

SpecChart == InitChart /\ [][NextChart]_vars

(***************************************************************************)
(* Claims checked under Spec                                               *)
(***************************************************************************)
Bound(n) == kernel[n] # Unbound

CompleteRun == mode = "rerun" /\ reruns = 0 /\ outcome = "ok"

ExpectedArtifacts ==
    << [cell |-> 3, kind |-> "chart"],
       [cell |-> 8, kind |-> "figure"],
       [cell |-> 10, kind |-> "map"] >>

ProducedBefore(c) == SelectSeq(ExpectedArtifacts, LAMBDA a : a.cell < c)

\* C1: while the in-order run proceeds without a fault, the artifacts produced
\* so far are exactly those of the chart cell (3), the plot cell (8) and the
\* map cell (10) that have run, in that order; the complete run has produced
\* exactly these three, and no other cell has produced any.
C1_ArtifactsInOrder ==
    (reruns = 0 /\ outcome = "ok") => artifacts = ProducedBefore(pc)

C1_Witness == CompleteRun /\ Len(artifacts) = 3

\* C2: no label is registered for two cells, every label is on a code cell,
\* every cross-reference met in a markdown cell names a label of a code cell
\* that has produced an artifact, and the complete run has registered
\* horsepower and plasma, each once.
C2_LabelsConsistent ==
    /\ \A p \in labels : \A q \in labels : p[1] = q[1] => p[2] = q[2]
    /\ \A p \in labels : CellType(p[2]) = "code"
    /\ \A r \in refs :
          \E p \in labels :
              /\ p[1] = r
              /\ \E n \in DOMAIN artifacts : artifacts[n].cell = p[2]
    /\ mode = "rerun" => {p[1] : p \in labels} = {"horsepower", "plasma"}

C2_Witness == CompleteRun /\ refs = {"horsepower"} /\ Cardinality(labels) = 2

\* C6: no execution raises NameError: every name a statement reads is bound
\* when the statement runs.
C6_NoUnboundRead == outcome # "NameError"

C6_Witness == CompleteRun /\ \A n \in Names : Bound(n)

\* C7: after the complete run, every re-execution that completes leaves every
\* name bound to a value of the kind and shape it had after the first run;
\* x_fine and y_fine stay flat arrays of 800000 elements; and no re-execution
\* raises an error of its own (the histogram gets inputs of equal length).
C7_RerunKeepsShapes ==
    mode = "rerun" =>
        /\ outcome \in {"ok", "fault"}
        /\ outcome = "ok" =>
              /\ \A n \in Names : /\ kernel[n].kind = first[n].kind
                                  /\ kernel[n].shape = first[n].shape
              /\ kernel["x_fine"].shape = <<800000>>
              /\ kernel["y_fine"].shape = <<800000>>

C7_Witness == outcome = "ok" /\ trail = <<6, 8>>

\* C8: num_signal is 100, and once the data cell has run, Y has shape
\* (1000, 100), its rows 900..999 hold the signals and its rows 0..899 are
\* still the random walks.
C8_LastRowsAreSignals ==
    /\ outcome # "ValueError"
    /\ Bound("num_signal") => kernel["num_signal"].val = 100
    /\ (outcome = "ok" /\ Bound("num_fine")) =>
          /\ kernel["Y"].shape = <<1000, 100>>
          /\ DOMAIN Expand(Yrows) = 0 .. 999
          /\ \A r \in 0 .. 999 : Expand(Yrows)[r] = IF r >= 900 THEN "signal" ELSE "walk"

C8_Witness ==
    /\ outcome = "ok" /\ Bound("num_fine")
    /\ Expand(Yrows)[899] = "walk" /\ Expand(Yrows)[900] = "signal"

\* C9: whenever y_fine is the flattened array, the loop that filled it has made
\* exactly num_series = 1000 iterations and has written every row 0..999 of the
\* buffer exactly once, so the 800000 elements flattened were all written.
C9_EveryRowWrittenOnce ==
    Len(kernel["y_fine"].shape) = 1 =>
        /\ iters = 1000
        /\ kernel["i"].val = 999
        /\ DOMAIN Expand(ywrites) = 0 .. 999
        /\ \A r \in 0 .. 999 : Expand(ywrites)[r] = 1
        /\ kernel["y_fine"].shape = <<1000 * 800>>

C9_Witness == outcome = "ok" /\ Len(kernel["y_fine"].shape) = 1 /\ iters = 1000

FaultStep == mode = "run" /\ outcome = "ok" /\ outcome' # "ok"

KeepsEarlierBindings == \A n \in Names : kernel[n] # Unbound => kernel'[n] = kernel[n]

\* C5 as stated: a fault ends the run for good, the faulting cell produces no
\* artifact, and the bindings and artifacts of the cells before it stay.
C5_Original ==
    [][/\ outcome # "ok" => UNCHANGED vars
       /\ FaultStep => /\ outcome' = "fault"
                       /\ pc' = pc
                       /\ artifacts' = artifacts
                       /\ KeepsEarlierBindings]_vars

\* C5, amended: a fault ends the run for good (nothing runs after it, the cell
\* is not run again), the faulting cell displays no value, and the bindings
\* and artifacts of the cells before it stay; the only output a faulting cell
\* leaves is the figure it had opened before the fault, which is still rendered.
C5_FaultEndsRun ==
    [][/\ outcome # "ok" => UNCHANGED vars
       /\ FaultStep => /\ outcome' = "fault"
                       /\ pc' = pc
                       /\ \/ artifacts' = artifacts
                          \/ /\ kernel'["fig"] # Unbound
                             /\ artifacts' = Append(artifacts, [cell |-> pc, kind |-> "figure"])
                       /\ KeepsEarlierBindings]_vars

C5_Witness == mode = "run" /\ outcome = "fault" /\ pc = 10 /\ Bound("m")

(***************************************************************************)
(* Claims checked under SpecData                                           *)
(***************************************************************************)
FlatLen == NSeries * NFine

\* C3: when the data cell has finished, x_fine and y_fine are flat arrays of
\* num_series * num_fine elements, all set, and for every index k, x_fine[k] is
\* the grid point (k mod num_fine) and y_fine[k] is the value of series
\* (k div num_fine) at that grid point.
C3_FlatArraysAligned ==
    dpc \in {"hist", "done"} =>
        /\ DOMAIN dxflat = 0 .. (FlatLen - 1)
        /\ DOMAIN dyflat = 0 .. (FlatLen - 1)
        /\ \A k \in 0 .. (FlatLen - 1) :
              /\ dxflat[k] = Val(Grid(k % NFine))
              /\ dyflat[k] = Val(Interp(Grid(k % NFine), dY[k \div NFine]))

C3_Witness ==
    /\ dpc = "hist"
    /\ \E k \in DOMAIN dyflat : k >= NFine /\ dyflat[k] # dyflat[k - NFine]
    /\ \E k \in DOMAIN dyflat : dyflat[k].v % (NFine - 1) # 0

RECURSIVE SumOver(_, _)
SumOver(f, T) ==
    IF T = {} THEN 0
    ELSE LET b == CHOOSE b \in T : TRUE IN f[b] + SumOver(f, T \ {b})

\* C10: the histogram has 400 x 100 bins, 401 and 101 edges, every one of the
\* num_series * num_fine points is counted in exactly one bin (the counts sum
\* to their number), the points at the largest abscissa are in the last column
\* of bins, and h.T has (number of yedges - 1) x (number of xedges - 1) entries.
C10_HistogramLosesNoPoint ==
    dpc = "done" =>
        /\ DOMAIN dh \subseteq (0 .. 399) \X (0 .. 99)
        /\ dedges = <<401, 101>>
        /\ SumOver(dh, DOMAIN dh) = FlatLen
        /\ SumOver(dh, {b \in DOMAIN dh : b[1] = 399}) = NSeries
        /\ Transpose(<<bins_x, bins_y>>) = <<dedges[2] - 1, dedges[1] - 1>>

C10_Witness ==
    /\ dpc = "done"
    /\ \E b \in DOMAIN dh : b[2] = 99
    /\ \E b \in DOMAIN dh : b[2] \notin {0, 99}
    /\ \E b \in DOMAIN dh : dh[b] > 1

(***************************************************************************)
(* Claims checked under SpecChart                                          *)
(***************************************************************************)
InBrush(v) == v # Null /\ brush[1] <= v /\ v <= brush[2]

DrawnCars == {i \in CarIds : Drawn(source[i])}

ColouredPoints == {i \in DrawnCars : PointColor(source[i]) # "lightgray"}

RECURSIVE SumBars(_)
SumBars(T) ==
    IF T = {} THEN 0
    ELSE LET o == CHOOSE o \in T : TRUE IN BarCount(o) + SumBars(T \ {o})

PointsFollowHorsepower ==
    \A i \in DrawnCars :
        /\ InBrush(source[i].hp) => PointColor(source[i]) = source[i].origin
        /\ ~InBrush(source[i].hp) => PointColor(source[i]) = "lightgray"

\* C4 as stated: for every brush interval the points are coloured by Horsepower
\* alone, the bars count per Origin exactly the cars whose Horsepower is in the
\* interval, and the bar counts sum to the number of points not lightgray.
C4_Original ==
    brush # <<>> =>
        /\ PointsFollowHorsepower
        /\ \A o \in Origins :
              BarCount(o) = Cardinality({i \in CarIds : /\ source[i].origin = o
                                                        /\ InBrush(source[i].hp)})
        /\ SumBars(Origins) = Cardinality(ColouredPoints)

\* C4, amended: for every brush interval a point that is drawn keeps its Origin
\* colour exactly when its Horsepower is in the interval, and the bars count,
\* per Origin, every car whose Horsepower is in the interval; the bar counts
\* sum to the number of points not lightgray plus the number of selected cars
\* that are not drawn as points (a car lacking Horsepower or Miles_per_Gallon),
\* so the sum is never less than the number of points not lightgray and equals
\* it when no car lacks a value.  With no interval every point has its colour.
C4_BrushSelectsByHorsepower ==
    /\ brush # <<>> =>
          /\ PointsFollowHorsepower
          /\ \A o \in Origins :
                /\ BarCount(o) >= Cardinality({i \in CarIds : /\ source[i].origin = o
                                                              /\ InBrush(source[i].hp)})
                /\ BarCount(o) <= Cardinality({i \in CarIds : /\ source[i].origin = o
                                                              /\ \/ InBrush(source[i].hp)
                                                                 \/ source[i].hp = Null})
    /\ brush = <<>> => \A i \in DrawnCars : PointColor(source[i]) = source[i].origin
    /\ SumBars(Origins) >= Cardinality(ColouredPoints)
    /\ DrawnCars = CarIds => SumBars(Origins) = Cardinality(ColouredPoints)

C4_Witness ==
    /\ brush # <<>>
    /\ DrawnCars = CarIds
    /\ ColouredPoints # {} /\ ColouredPoints # CarIds
    /\ \E o \in Origins : BarCount(o) > 0

====
